---- MODULE Spec2Model ----
(***************************************************************************)
(* VidiSnap processor (src/processor/app.py): the /process pipeline, its   *)
(* temp files under /tmp, the startup-loaded classifier and /health.       *)
(*                                                                         *)
(* Scheduling: one asyncio event loop.  A handler runs without             *)
(* interruption until it awaits; the only await inside process_video is    *)
(* `await file.read()` in save_uploaded_video (subprocess.run and the      *)
(* model call are blocking).  `running` is the request holding the loop.   *)
(***************************************************************************)
EXTENDS Integers, Sequences, FiniteSets, TLC

\* ------------------------------------------------------------- bounds
MaxRequests == 2
MaxArgs == 2
NumClasses == 4
MaxLogit == 2

Requests == 1..MaxRequests

\* ------------------------------------------------------------- strings
\* File names and paths are tuples of characters; None is the empty tuple.
None == <<>>

UpperCase == <<"A", "B", "M", "O", "P", "V">>
LowerCase == <<"a", "b", "m", "o", "p", "v">>

\* str.lower() on one character
LowerChar(c) ==
    IF \E i \in 1..Len(UpperCase) : UpperCase[i] = c
    THEN LowerCase[CHOOSE i \in 1..Len(UpperCase) : UpperCase[i] = c]
    ELSE c

\* filename.lower()
lower(s) == [i \in 1..Len(s) |-> LowerChar(s[i])]

\* str.rfind, 1-based; 0 when the character does not occur
rfind(s, c) ==
    LET I == {i \in 1..Len(s) : s[i] = c}
    IN IF I = {} THEN 0 ELSE CHOOSE i \in I : \A j \in I : j <= i

\* os.path.splitext(p)[1]: the suffix from the last dot of the last path
\* component, unless that component has only dots before it.
splitext(p) ==
    LET sepIndex == rfind(p, "/")
        dotIndex == rfind(p, ".")
    IN IF dotIndex > sepIndex
          /\ \E k \in (sepIndex + 1)..(dotIndex - 1) : p[k] # "."
       THEN SubSeq(p, dotIndex, Len(p))
       ELSE <<>>

\* os.path.join(a, b) on POSIX: an absolute b replaces a
join(a, b) ==
    IF Len(b) > 0 /\ b[1] = "/" THEN b
    ELSE IF a[Len(a)] = "/" THEN a \o b
    ELSE a \o <<"/">> \o b

TmpDir == <<"/", "t", "m", "p">>

valid_extensions ==
    { <<".", "m", "p", "4">>, <<".", "a", "v", "i">>, <<".", "m", "o", "v">>,
      <<".", "m", "k", "v">>, <<".", "w", "m", "v">>, <<".", "f", "l", "v">>,
      <<".", "w", "e", "b", "m">> }

\* ------------------------------------------------------------- exceptions
NoExc == [kind |-> "none", status_code |-> 0, stage |-> "none"]
HTTPException(code, st) == [kind |-> "HTTPException", status_code |-> code, stage |-> st]
OtherException == [kind |-> "Exception", status_code |-> 0, stage |-> "unexpected"]

\* ------------------------------------------------------------- stages
\* validate without lowercasing the name
validate_case_sensitive(filename) ==
    IF splitext(filename) \notin valid_extensions
    THEN HTTPException(400, "validate")
    ELSE NoExc

validate_video_file(filename) ==
    IF splitext(lower(filename)) \notin valid_extensions
    THEN HTTPException(400, "validate")
    ELSE NoExc

\* video_path = os.path.join("/tmp", file.filename)
VideoPathOf(filename) == join(TmpDir, filename)

\* frame_path = os.path.join("/tmp", f"frame_{filename}.jpg")
FramePathOf(filename) ==
    join(TmpDir, <<"f", "r", "a", "m", "e", "_">> \o filename \o <<".", "j", "p", "g">>)

\* What one run of the external decoder can do: it may fail to start
\* (subprocess.run raises), exit 0 or 1, and write the output file or not.
\* Without its input file it exits non-zero and writes nothing.
DecoderRuns(fsys, vpath) ==
    { run \in [spawned : BOOLEAN, returncode : {0, 1}, wrote : BOOLEAN] :
        /\ ~run.spawned => (run.returncode = 1 /\ ~run.wrote)
        /\ fsys[vpath] = 0 => (run.returncode = 1 /\ ~run.wrote) }

\* extract_first_frame: the result of the call for decoder run `run`, made
\* by request r.  No check that the output file exists.
extract_first_frame(fsys, vpath, filename, run, r) ==
    LET fp == FramePathOf(filename)
        fs1 == IF run.wrote THEN [fsys EXCEPT ![fp] = r] ELSE fsys
    IN IF ~run.spawned
       THEN [exc |-> OtherException, frame_path |-> None, fs |-> fs1]
       ELSE IF run.returncode # 0
       THEN [exc |-> HTTPException(500, "extract"), frame_path |-> None, fs |-> fs1]
       ELSE [exc |-> NoExc, frame_path |-> fp, fs |-> fs1]

\* classify_image: any exception (frame missing, undecodable, engine not
\* loaded, inference error) becomes HTTPException(500).
classify_image_exc(fsys, image_path, mdl, prc, decodes) ==
    IF fsys[image_path] = 0 \/ ~decodes \/ prc = "None" \/ mdl = "None"
    THEN HTTPException(500, "classify")
    ELSE NoExc

\* encode_image_to_base64: any exception becomes HTTPException(500).
encode_image_to_base64_exc(fsys, image_path, readable) ==
    IF fsys[image_path] = 0 \/ ~readable
    THEN HTTPException(500, "encode")
    ELSE NoExc

\* ------------------------------------------------------------- cleanup
\* os.path.exists(None) raises TypeError; os.remove raises for a path the
\* environment does not let the process unlink (unrem).
RemoveRaises(p, fsys, unrem, checkExists) ==
    \/ p = None
    \/ /\ checkExists
       /\ fsys[p] # 0 /\ p \in unrem
    \/ /\ ~checkExists
       /\ (fsys[p] = 0 \/ p \in unrem)

\* The loop of cleanup_temp_files from argument i on.  checkExists: the
\* os.path.exists guard is there; catch: the try/except inside the loop is.
RECURSIVE CleanupFrom(_, _, _, _, _, _)
CleanupFrom(fsys, unrem, paths, i, checkExists, catch) ==
    IF i > Len(paths)
    THEN [fs |-> fsys, warned |-> {}, raised |-> FALSE]
    ELSE LET p == paths[i]
         IN IF RemoveRaises(p, fsys, unrem, checkExists)
            THEN IF catch
                 THEN LET rest == CleanupFrom(fsys, unrem, paths, i + 1, checkExists, catch)
                      IN [rest EXCEPT !.warned = @ \cup {i}]
                 ELSE [fs |-> fsys, warned |-> {}, raised |-> TRUE]
            ELSE LET fs1 == IF fsys[p] # 0 THEN [fsys EXCEPT ![p] = 0] ELSE fsys
                 IN CleanupFrom(fs1, unrem, paths, i + 1, checkExists, catch)

\* cleanup without the try/except: the first failing removal propagates
cleanup_no_except(fsys, unrem, paths) ==
    CleanupFrom(fsys, unrem, paths, 1, TRUE, FALSE)

\* cleanup that calls os.remove unguarded and lets it raise
cleanup_unguarded_remove(fsys, unrem, paths) ==
    CleanupFrom(fsys, unrem, paths, 1, FALSE, FALSE)

cleanup_temp_files(fsys, unrem, paths) ==
    CleanupFrom(fsys, unrem, paths, 1, TRUE, TRUE)

\* ------------------------------------------------------------- handler
\* every exception sent to 500, as if `except HTTPException: raise` were absent
HandlerStatus_all_500(exc) == 500

\* process_video's except clauses: HTTPException is re-raised with its own
\* status; anything else becomes HTTPException(500).
HandlerStatus(exc) ==
    IF exc.kind = "HTTPException" THEN exc.status_code ELSE 500

\* a stage failure leaving the handler without passing through cleanup
FailedState_no_finally == "CleanedUp"

\* Where a raising stage leaves the handler: the finally block still to run.
FailedState == "Failed"

\* reading the other global
health_check_processor(mdl, prc) == prc # "None"

\* health_check: model_loaded = model is not None
health_check(mdl, prc) == mdl # "None"

\* ------------------------------------------------------------- classifier
\* torch.topk(probabilities, 3) and range(3)
TopK == 3
\* round(score, 4)
RoundDigits == 4

RECURSIVE Pow10(_)
Pow10(n) == IF n = 0 THEN 1 ELSE 10 * Pow10(n - 1)

\* Probabilities are fixed-point numbers with one digit more than the
\* rounding keeps: Scale stands for 1.0.
Scale == 10 * Pow10(RoundDigits)

\* e^x in fixed point (e ~ 2.718), x a natural number
RECURSIVE ExpFix(_)
ExpFix(x) == IF x = 0 THEN 100 ELSE (ExpFix(x - 1) * 2718) \div 1000

RECURSIVE SumTo(_, _)
SumTo(f, n) == IF n = 0 THEN 0 ELSE f[n] + SumTo(f, n - 1)

\* torch.nn.functional.softmax(logits, dim=-1)
softmax(lg) ==
    LET e == [i \in 1..Len(lg) |-> ExpFix(lg[i])]
        total == SumTo(e, Len(lg))
    IN [i \in 1..Len(lg) |-> (e[i] * Scale) \div total]

\* The k largest entries, in class-index order instead of by value
topk_unsorted(probs, k) ==
    { s \in [1..k -> 1..Len(probs)] :
        /\ \A i, j \in 1..k : i < j => s[i] < s[j]
        /\ \A j \in 1..Len(probs) :
              (\A i \in 1..k : s[i] # j) => \A i \in 1..k : probs[j] <= probs[s[i]] }

\* torch.topk(probs, k): the index lists it may return: k distinct classes,
\* largest value first, no class left out that beats a chosen one.  The
\* order among equal values is not fixed by the library.
topk(probs, k) ==
    { s \in [1..k -> 1..Len(probs)] :
        /\ \A i, j \in 1..k : i < j => (s[i] # s[j] /\ probs[s[i]] >= probs[s[j]])
        /\ \A j \in 1..Len(probs) :
              (\A i \in 1..k : s[i] # j) => probs[j] <= probs[s[k]] }

\* round(score, 4): to the nearest multiple of 10^-4, halves to even; the
\* result is counted in units of 10^-4.
round4(p) ==
    LET q == p \div 10
        rem == p % 10
    IN IF rem > 5 \/ (rem = 5 /\ q % 2 = 1) THEN q + 1 ELSE q

\* classify_image on the model's logits, for the index list idx that topk
\* returned: the three {"label", "score"} entries.
classify_image(lg, idx) ==
    [i \in 1..TopK |-> [label |-> idx[i], score |-> round4(softmax(lg)[idx[i]])]]

\* ------------------------------------------------------------- inputs
UpA == <<"a", ".", "m", "p", "4">>
UpB == <<"B", ".", "M", "O", "V">>
UpTxt == <<"d", ".", "t", "x", "t">>
UpDot == <<".", "m", "p", "4">>

Uploads == {UpA, UpB, UpTxt, UpDot}

AllPaths == {VideoPathOf(f) : f \in Uploads} \cup {FramePathOf(f) : f \in Uploads}

\* ------------------------------------------------------------- state
VARIABLES
    startup,     \* lifespan: "starting", "processor_loaded", "ready", "failed"
    model,       \* global model: "None" or "loaded"
    processor,   \* global processor: "None" or "loaded"
    lastHealth,  \* the last /health answer and whether startup had completed
    running,     \* the request holding the event loop, 0 when it is free
    pc,          \* per request: position in process_video
    fname,       \* per request: file.filename
    save_path,   \* per request: video_path inside save_uploaded_video
    fd_linked,   \* per request: the file opened by save is still at save_path
    video_path,  \* per request: process_video's video_path
    frame_path,  \* per request: process_video's frame_path
    dec,         \* per request: the decoder run seen by extract_first_frame
    status,      \* per request: status decided by the stages (0: none yet)
    stage,       \* per request: the stage that raised ("none": no stage)
    cleanups,    \* per request: calls of cleanup_temp_files so far
    warned,      \* per request: arguments whose removal was logged as failed
    raised,      \* per request: cleanup_temp_files raised
    response,    \* per request: the status sent (0: none yet)
    fs,          \* /tmp: path -> request that last wrote it, 0 when absent
    c_orig,      \* cleanup alone: the files before the first call
    c_fs,        \* cleanup alone: the files now
    c_unrem,     \* cleanup alone: paths whose removal raises
    c_paths,     \* cleanup alone: the arguments
    c_calls,     \* cleanup alone: calls made with these arguments
    c_first,     \* cleanup alone: the files as the first call left them
    c_raised,    \* cleanup alone: some call raised
    logits,      \* classifier alone: the model's output logits
    labels       \* classifier alone: what classify_image returned

mainVars == <<startup, model, processor, lastHealth, running, pc, fname, save_path,
              fd_linked, video_path, frame_path, dec, status, stage, cleanups,
              warned, raised, response, fs>>
cleanupVars == <<c_orig, c_fs, c_unrem, c_paths, c_calls, c_first, c_raised>>
classifyVars == <<logits, labels>>
vars == <<mainVars, cleanupVars, classifyVars>>

NoHealth == [asked |-> FALSE, model_loaded |-> FALSE, completed |-> FALSE]

NoDec == [spawned |-> FALSE, returncode |-> -1, wrote |-> FALSE, out_exists |-> FALSE]

PurePaths == {VideoPathOf(UpA), FramePathOf(UpA), VideoPathOf(UpB), FramePathOf(UpB)}

MainInit ==
    /\ startup = "starting"
    /\ model = "None"
    /\ processor = "None"
    /\ lastHealth = NoHealth
    /\ running = 0
    /\ pc = [r \in Requests |-> "idle"]
    /\ fname = [r \in Requests |-> None]
    /\ save_path = [r \in Requests |-> None]
    /\ fd_linked = [r \in Requests |-> FALSE]
    /\ video_path = [r \in Requests |-> None]
    /\ frame_path = [r \in Requests |-> None]
    /\ dec = [r \in Requests |-> NoDec]
    /\ status = [r \in Requests |-> 0]
    /\ stage = [r \in Requests |-> "none"]
    /\ cleanups = [r \in Requests |-> 0]
    /\ warned = [r \in Requests |-> {}]
    /\ raised = [r \in Requests |-> FALSE]
    /\ response = [r \in Requests |-> 0]
    /\ fs = [p \in AllPaths |-> 0]

CleanupIdle ==
    /\ c_orig = [p \in PurePaths |-> 0]
    /\ c_fs = [p \in PurePaths |-> 0]
    /\ c_unrem = {}
    /\ c_paths = <<>>
    /\ c_calls = 0
    /\ c_first = [p \in PurePaths |-> 0]
    /\ c_raised = FALSE

ClassifyIdle ==
    /\ logits = <<>>
    /\ labels = <<>>

Init == MainInit /\ CleanupIdle /\ ClassifyIdle

\* ------------------------------------------------------------- lifespan
\* processor = ViTImageProcessor.from_pretrained(model_name)
LoadProcessor ==
    /\ startup = "starting"
    /\ \E ok \in BOOLEAN :
         IF ok
         THEN processor' = "loaded" /\ startup' = "processor_loaded"
         ELSE processor' = processor /\ startup' = "failed"
    /\ UNCHANGED <<model, lastHealth, running, pc, fname, save_path, fd_linked,
                   video_path, frame_path, dec, status, stage, cleanups, warned,
                   raised, response, fs>>
    /\ UNCHANGED <<cleanupVars, classifyVars>>

\* model = ViTForImageClassification.from_pretrained(model_name); yield
LoadModel ==
    /\ startup = "processor_loaded"
    /\ \E ok \in BOOLEAN :
         IF ok
         THEN model' = "loaded" /\ startup' = "ready"
         ELSE model' = model /\ startup' = "failed"
    /\ UNCHANGED <<processor, lastHealth, running, pc, fname, save_path, fd_linked,
                   video_path, frame_path, dec, status, stage, cleanups, warned,
                   raised, response, fs>>
    /\ UNCHANGED <<cleanupVars, classifyVars>>

\* GET /health
Health ==
    /\ running = 0
    /\ lastHealth' = [asked |-> TRUE,
                      model_loaded |-> health_check(model, processor),
                      completed |-> startup = "ready"]
    /\ UNCHANGED <<startup, model, processor, running, pc, fname, save_path,
                   fd_linked, video_path, frame_path, dec, status, stage, cleanups,
                   warned, raised, response, fs>>
    /\ UNCHANGED <<cleanupVars, classifyVars>>

\* ------------------------------------------------------------- /process
envVars == <<startup, model, processor, lastHealth>>

\* Stage `st` of request r raised exc.
Fail(r, exc) ==
    /\ status' = [status EXCEPT ![r] = HandlerStatus(exc)]
    /\ stage' = [stage EXCEPT ![r] = exc.stage]
    /\ pc' = [pc EXCEPT ![r] = FailedState]

\* POST /process arrives; requests are numbered in arrival order.  The
\* server accepts traffic only once lifespan startup has completed.
Receive(r) ==
    /\ startup = "ready"
    /\ running = 0
    /\ pc[r] = "idle"
    /\ \A q \in Requests : q < r => pc[q] # "idle"
    /\ \E f \in Uploads : fname' = [fname EXCEPT ![r] = f]
    /\ pc' = [pc EXCEPT ![r] = "Received"]
    /\ running' = r
    /\ UNCHANGED <<envVars, save_path, fd_linked, video_path, frame_path, dec,
                   status, stage, cleanups, warned, raised, response, fs>>
    /\ UNCHANGED <<cleanupVars, classifyVars>>

\* Step 1: validate_video_file(file.filename)
Validate(r) ==
    /\ running = r
    /\ pc[r] = "Received"
    /\ LET exc == validate_video_file(fname[r])
       IN IF exc = NoExc
          THEN /\ pc' = [pc EXCEPT ![r] = "Validated"]
               /\ UNCHANGED <<status, stage>>
          ELSE Fail(r, exc)
    /\ UNCHANGED <<envVars, running, fname, save_path, fd_linked, video_path,
                   frame_path, dec, cleanups, warned, raised, response, fs>>
    /\ UNCHANGED <<cleanupVars, classifyVars>>

\* Step 2, first half: open(video_path, "wb"), then the handler yields at
\* `await file.read()`.
SaveOpen(r) ==
    /\ running = r
    /\ pc[r] = "Validated"
    /\ \E ok \in BOOLEAN :
         IF ok
         THEN /\ save_path' = [save_path EXCEPT ![r] = VideoPathOf(fname[r])]
              /\ fd_linked' = [fd_linked EXCEPT ![r] = TRUE]
              /\ fs' = [fs EXCEPT ![VideoPathOf(fname[r])] = r]
              /\ pc' = [pc EXCEPT ![r] = "Reading"]
              /\ running' = 0
              /\ UNCHANGED <<status, stage>>
         ELSE /\ Fail(r, HTTPException(500, "save"))
              /\ UNCHANGED <<save_path, fd_linked, fs, running>>
    /\ UNCHANGED <<envVars, fname, video_path, frame_path, dec, cleanups, warned,
                   raised, response>>
    /\ UNCHANGED <<cleanupVars, classifyVars>>

\* Step 2, second half: the read completes (or raises), buffer.write, the
\* file is closed, and save_uploaded_video returns video_path or raises.
SaveWrite(r) ==
    /\ running = 0
    /\ pc[r] = "Reading"
    /\ running' = r
    /\ \E ok \in BOOLEAN :
         IF ok
         THEN /\ fs' = IF fd_linked[r] THEN [fs EXCEPT ![save_path[r]] = r] ELSE fs
              /\ video_path' = [video_path EXCEPT ![r] = save_path[r]]
              /\ pc' = [pc EXCEPT ![r] = "Stored"]
              /\ UNCHANGED <<status, stage>>
         ELSE /\ Fail(r, HTTPException(500, "save"))
              /\ UNCHANGED <<fs, video_path>>
    /\ fd_linked' = [fd_linked EXCEPT ![r] = FALSE]
    /\ UNCHANGED <<envVars, fname, save_path, frame_path, dec, cleanups, warned,
                   raised, response>>
    /\ UNCHANGED <<cleanupVars, classifyVars>>

\* Step 3: extract_first_frame(video_path, file.filename)
Extract(r) ==
    /\ running = r
    /\ pc[r] = "Stored"
    /\ \E run \in DecoderRuns(fs, video_path[r]) :
         LET res == extract_first_frame(fs, video_path[r], fname[r], run, r)
         IN /\ fs' = res.fs
            /\ dec' = [dec EXCEPT ![r] =
                         [spawned |-> run.spawned, returncode |-> run.returncode,
                          wrote |-> run.wrote,
                          out_exists |-> res.fs[FramePathOf(fname[r])] # 0]]
            /\ IF res.exc = NoExc
               THEN /\ frame_path' = [frame_path EXCEPT ![r] = res.frame_path]
                    /\ pc' = [pc EXCEPT ![r] = "FrameExtracted"]
                    /\ UNCHANGED <<status, stage>>
               ELSE /\ Fail(r, res.exc)
                    /\ UNCHANGED frame_path
    /\ UNCHANGED <<envVars, running, fname, save_path, fd_linked, video_path,
                   cleanups, warned, raised, response>>
    /\ UNCHANGED <<cleanupVars, classifyVars>>

\* Step 4: classify_image(frame_path)
Classify(r) ==
    /\ running = r
    /\ pc[r] = "FrameExtracted"
    /\ \E decodes \in BOOLEAN :
         LET exc == classify_image_exc(fs, frame_path[r], model, processor, decodes)
         IN IF exc = NoExc
            THEN /\ pc' = [pc EXCEPT ![r] = "Classified"]
                 /\ UNCHANGED <<status, stage>>
            ELSE Fail(r, exc)
    /\ UNCHANGED <<envVars, running, fname, save_path, fd_linked, video_path,
                   frame_path, dec, cleanups, warned, raised, response, fs>>
    /\ UNCHANGED <<cleanupVars, classifyVars>>

\* Step 5 and the return: encode_image_to_base64(frame_path), then
\* JSONResponse(content=response), which may raise like any other call.
Encode(r) ==
    /\ running = r
    /\ pc[r] = "Classified"
    /\ \E readable \in BOOLEAN, serialises \in BOOLEAN :
         LET exc == encode_image_to_base64_exc(fs, frame_path[r], readable)
         IN IF exc # NoExc THEN Fail(r, exc)
            ELSE IF ~serialises THEN Fail(r, OtherException)
            ELSE /\ pc' = [pc EXCEPT ![r] = "Assembled"]
                 /\ status' = [status EXCEPT ![r] = 200]
                 /\ UNCHANGED stage
    /\ UNCHANGED <<envVars, running, fname, save_path, fd_linked, video_path,
                   frame_path, dec, cleanups, warned, raised, response, fs>>
    /\ UNCHANGED <<cleanupVars, classifyVars>>

\* finally: cleanup_temp_files(video_path, frame_path)
Cleanup(r) ==
    /\ running = r
    /\ pc[r] \in {"Assembled", "Failed"}
    /\ \E unrem \in SUBSET ({video_path[r], frame_path[r]} \ {None}) :
         LET res == cleanup_temp_files(fs, unrem, <<video_path[r], frame_path[r]>>)
         IN /\ fs' = res.fs
            /\ warned' = [warned EXCEPT ![r] = res.warned]
            /\ raised' = [raised EXCEPT ![r] = res.raised]
            /\ fd_linked' = [q \in Requests |->
                               fd_linked[q] /\ res.fs[save_path[q]] # 0]
    /\ cleanups' = [cleanups EXCEPT ![r] = @ + 1]
    /\ pc' = [pc EXCEPT ![r] = "CleanedUp"]
    /\ UNCHANGED <<envVars, running, fname, save_path, video_path, frame_path,
                   dec, status, stage, response>>
    /\ UNCHANGED <<cleanupVars, classifyVars>>

\* The handler returns: the response goes out and the locals are gone.  An
\* exception leaving the finally block would replace the pending outcome
\* and reach the client as 500.
Finish(r) ==
    /\ running = r
    /\ pc[r] = "CleanedUp"
    /\ response' = [response EXCEPT ![r] = IF raised[r] THEN 500 ELSE status[r]]
    /\ pc' = [pc EXCEPT ![r] = "Done"]
    /\ running' = 0
    /\ fname' = [fname EXCEPT ![r] = None]
    /\ save_path' = [save_path EXCEPT ![r] = None]
    /\ video_path' = [video_path EXCEPT ![r] = None]
    /\ frame_path' = [frame_path EXCEPT ![r] = None]
    /\ dec' = [dec EXCEPT ![r] = NoDec]
    /\ warned' = [warned EXCEPT ![r] = {}]
    /\ UNCHANGED <<envVars, fd_linked, status, stage, cleanups, raised, fs>>
    /\ UNCHANGED <<cleanupVars, classifyVars>>

Next ==
    \/ LoadProcessor
    \/ LoadModel
    \/ Health
    \/ \E r \in Requests : Receive(r)
    \/ \E r \in Requests : Validate(r)
    \/ \E r \in Requests : SaveOpen(r)
    \/ \E r \in Requests : SaveWrite(r)
    \/ \E r \in Requests : Extract(r)
    \/ \E r \in Requests : Classify(r)
    \/ \E r \in Requests : Encode(r)
    \/ \E r \in Requests : Cleanup(r)
    \/ \E r \in Requests : Finish(r)

Spec == Init /\ [][Next]_vars

\* ------------------------------------------------------------- cleanup alone
\* cleanup_temp_files called twice in a row with the same arguments, from
\* any content of /tmp and any set of paths that cannot be unlinked.
ArgLists ==
    UNION { [1..n -> PurePaths \cup {None}] : n \in 0..MaxArgs }

CleanupInit ==
    /\ c_orig \in [PurePaths -> {0, 1}]
    /\ c_fs = c_orig
    /\ c_unrem \in SUBSET PurePaths
    /\ c_paths \in ArgLists
    /\ c_calls = 0
    /\ c_first = c_orig
    /\ c_raised = FALSE

CallCleanup ==
    /\ c_calls < 2
    /\ LET res == cleanup_temp_files(c_fs, c_unrem, c_paths)
       IN /\ c_fs' = res.fs
          /\ c_first' = IF c_calls = 0 THEN res.fs ELSE c_first
          /\ c_raised' = (c_raised \/ res.raised)
    /\ c_calls' = c_calls + 1
    /\ UNCHANGED <<c_orig, c_unrem, c_paths>>
    /\ UNCHANGED <<mainVars, classifyVars>>

InitCleanup == MainInit /\ CleanupInit /\ ClassifyIdle

SpecCleanup == InitCleanup /\ [][CallCleanup]_vars

\* ------------------------------------------------------------- classifier alone
\* classify_image on any logits the model can put out.
ClassifyInit ==
    /\ logits \in [1..NumClasses -> 0..MaxLogit]
    /\ labels = <<>>

RunClassify ==
    /\ labels = <<>>
    /\ \E idx \in topk(softmax(logits), TopK) : labels' = classify_image(logits, idx)
    /\ UNCHANGED logits
    /\ UNCHANGED <<mainVars, cleanupVars>>

InitClassify == MainInit /\ CleanupIdle /\ ClassifyInit

SpecClassify == InitClassify /\ [][RunClassify]_vars

\* ------------------------------------------------------------- claims
InFlight(r) == pc[r] \notin {"idle", "Done"}
Finished(r) == pc[r] \in {"CleanedUp", "Done"}

\* C1: once a /process request has finished (cleanup has run), no file that
\* the request wrote under /tmp (the saved video, the decoder's frame) is
\* still on disk.
C1_NoTempFileRemains ==
    \A r \in Requests : Finished(r) => \A p \in AllPaths : fs[p] # r

\* The paths request r has used so far: the video path it opened and the
\* frame path it handed to the decoder.
UsedPaths(r) ==
    (IF save_path[r] # None THEN {save_path[r]} ELSE {})
    \cup (IF dec[r] # NoDec THEN {FramePathOf(fname[r])} ELSE {})

\* C2: two requests in flight at the same time never use the same video
\* path or frame path.
C2_PathsNeverShared ==
    \A r1, r2 \in Requests :
        (r1 # r2 /\ InFlight(r1) /\ InFlight(r2))
            => UsedPaths(r1) \cap UsedPaths(r2) = {}

\* File names with an allowed extension in some letter case, and file names
\* without one, written down by hand.
ValidCases ==
    { UpA, UpB,
      <<"b", ".", "a", "v", "i">>, <<"c", ".", "m", "o", "v">>,
      <<"d", ".", "m", "k", "v">>, <<"e", ".", "w", "m", "v">>,
      <<"f", ".", "f", "l", "v">>, <<"g", ".", "w", "e", "b", "m">>,
      <<"A", ".", "M", "p", "4">>, <<"a", ".", "b", ".", "M", "o", "V">>,
      <<"x", "/", "y", ".", "m", "k", "v">>, <<".", "a", ".", "m", "p", "4">> }

InvalidCases ==
    { UpTxt, UpDot,
      <<>>, <<"a">>, <<"a", ".", "g", "i", "f">>, <<"a", "m", "p", "4">>,
      <<"a", ".", "m", "p", "4", ".">>, <<"a", ".", "m", "p", "4", "/", "b">>,
      <<".", ".", "m", "p", "4">>, <<"x", "/", ".", "m", "p", "4">>,
      <<"a", ".", "m", "p", "4", ".", "j", "p", "g">>, <<"m", "p", "4">> }

\* validate_video_file on the names written down above
ValidateCases ==
    /\ \A f \in ValidCases : validate_video_file(f) = NoExc
    /\ \A f \in InvalidCases :
          /\ validate_video_file(f).kind = "HTTPException"
          /\ validate_video_file(f).status_code = 400

\* C3: validate_video_file accepts exactly the names whose lowercased
\* extension is allowed; a request with any other name gets 400 from the
\* validation stage and writes nothing: no save, no decoder run, no file.
C3_ValidationGate ==
    /\ ValidateCases
    /\ \A r \in Requests :
          /\ (InFlight(r) /\ pc[r] # "Received" /\ fname[r] \in InvalidCases)
                => /\ status[r] = 400 /\ stage[r] = "validate"
                   /\ pc[r] \in {"Failed", "CleanedUp"}
                   /\ save_path[r] = None /\ video_path[r] = None
                   /\ frame_path[r] = None /\ dec[r] = NoDec
          /\ (InFlight(r) /\ pc[r] # "Received" /\ fname[r] \in ValidCases)
                => (stage[r] # "validate" /\ status[r] # 400)
          /\ stage[r] = "validate" => \A p \in AllPaths : fs[p] # r

C3_Witness ==
    \E r1, r2 \in Requests :
        /\ pc[r1] = "Reading" /\ fname[r1] = UpB
        /\ pc[r2] = "CleanedUp" /\ fname[r2] = UpDot /\ status[r2] = 400

\* C4: extract_first_frame fails with the extraction error whenever the
\* decoder exits non-zero or leaves no output file, and returns the frame
\* path only when the exit status is zero and the file exists.
C4_ExtractionFailure ==
    \A r \in Requests :
        (dec[r] # NoDec /\ dec[r].spawned) =>
            /\ (stage[r] = "extract")
                  <=> (dec[r].returncode # 0 \/ ~dec[r].out_exists)
            /\ (frame_path[r] # None)
                  <=> (dec[r].returncode = 0 /\ dec[r].out_exists)

\* C5: the response is 400 exactly when validation failed, 500 when any
\* later stage or an unexpected exception failed, and 200 only when the
\* five stages all succeeded.
C5_StatusMapping ==
    \A r \in Requests :
        /\ pc[r] = "Done" =>
              /\ response[r] \in {200, 400, 500}
              /\ (response[r] = 400) <=> (stage[r] = "validate")
              /\ stage[r] \in {"save", "extract", "classify", "encode", "unexpected"}
                    => response[r] = 500
              /\ response[r] = 200 => stage[r] = "none"
        /\ (pc[r] = "CleanedUp" /\ status[r] = 200) =>
              /\ stage[r] = "none"
              /\ validate_video_file(fname[r]) = NoExc
              /\ video_path[r] = VideoPathOf(fname[r])
              /\ frame_path[r] = FramePathOf(fname[r])
              /\ dec[r].spawned /\ dec[r].returncode = 0

C5_Witness ==
    \E r1, r2 \in Requests :
        /\ pc[r1] = "Done" /\ response[r1] = 400 /\ stage[r1] = "validate"
        /\ pc[r2] = "Done" /\ response[r2] = 500 /\ stage[r2] = "unexpected"

\* C6: every request runs cleanup exactly once before it terminates: never
\* before the stages are over, once by the time the response is sent, on
\* the success path and on every failure path.
C6_CleanupExactlyOnce ==
    \A r \in Requests :
        /\ pc[r] \in {"CleanedUp", "Done"} => cleanups[r] = 1
        /\ pc[r] \notin {"CleanedUp", "Done"} => cleanups[r] = 0

C6_Witness ==
    \E r1, r2 \in Requests :
        /\ pc[r1] = "Done" /\ stage[r1] = "classify" /\ cleanups[r1] = 1
        /\ pc[r2] = "Done" /\ response[r2] = 200 /\ cleanups[r2] = 1

CleanupArgs(r) == <<video_path[r], frame_path[r]>>

\* C7: cleanup never raises into the handler, whether an argument is None
\* or a removal fails; every argument whose removal did not fail is gone
\* afterwards; and the response sent is the one the stages decided.
C7_CleanupNeverPropagates ==
    \A r \in Requests :
        /\ pc[r] = "CleanedUp" =>
              /\ ~raised[r]
              /\ \A i \in 1..2 :
                    /\ (CleanupArgs(r)[i] # None /\ i \notin warned[r])
                          => fs[CleanupArgs(r)[i]] = 0
                    /\ i \in warned[r]
                          => (CleanupArgs(r)[i] = None \/ fs[CleanupArgs(r)[i]] # 0)
        /\ pc[r] = "Done" => (response[r] = status[r] /\ status[r] # 0)

C7_Witness ==
    \E r \in Requests :
        /\ pc[r] = "CleanedUp" /\ status[r] = 200
        /\ warned[r] = {1}
        /\ fs[video_path[r]] # 0 /\ fs[frame_path[r]] = 0

\* C9: /health answers model_loaded = true exactly in the states where
\* startup initialization has completed, and the engine handles change only
\* in a startup step, never while a request is handled.
C9_HealthAndHandles ==
    /\ [](health_check(model, processor) <=> (startup = "ready"))
    /\ [](lastHealth.asked => (lastHealth.model_loaded <=> lastHealth.completed))
    /\ [][(model' # model \/ processor' # processor)
            => /\ startup \in {"starting", "processor_loaded"}
               /\ startup' # startup
               /\ pc' = pc /\ lastHealth' = lastHealth]_vars

C9_Witness ==
    /\ lastHealth.asked /\ lastHealth.model_loaded
    /\ \E r \in Requests : pc[r] = "Done" /\ response[r] = 200

\* C8: a second call of cleanup_temp_files with the same arguments leaves
\* the files exactly as the first call left them, and no call raises.
C8_CleanupIdempotent ==
    /\ ~c_raised
    /\ c_calls = 2 => c_fs = c_first

C8_Witness ==
    /\ c_calls = 2
    /\ Len(c_paths) = 2
    /\ c_paths[1] # None /\ c_orig[c_paths[1]] # 0 /\ c_fs[c_paths[1]] = 0
    /\ c_paths[2] # None /\ c_paths[2] \in c_unrem /\ c_fs[c_paths[2]] # 0

\* The k-th largest value of a distribution, counted with repetitions.
KthLargest(probs, k) ==
    CHOOSE v \in {probs[i] : i \in 1..Len(probs)} :
        /\ Cardinality({i \in 1..Len(probs) : probs[i] > v}) < k
        /\ Cardinality({i \in 1..Len(probs) : probs[i] >= v}) >= k

\* C10: classify_image returns exactly 3 entries, scores non-increasing in
\* list order, each within [0,1], the i-th being the i-th largest value of
\* the softmax distribution rounded to 4 digits, for the class named.
C10_TopThree ==
    labels # <<>> =>
        /\ Len(labels) = 3
        /\ \A i \in 1..2 : labels[i].score >= labels[i + 1].score
        /\ \A i \in 1..3 :
              /\ labels[i].score >= 0 /\ labels[i].score <= Pow10(RoundDigits)
              /\ labels[i].score = round4(KthLargest(softmax(logits), i))
              /\ labels[i].score = round4(softmax(logits)[labels[i].label])
        /\ \A i, j \in 1..3 : i # j => labels[i].label # labels[j].label

C10_Witness ==
    /\ labels # <<>>
    /\ labels[1].score > labels[2].score
    /\ labels[2].score > labels[3].score
    /\ labels[1].label > labels[3].label
    /\ \E i \in 1..3 : labels[i].score * 10 # softmax(logits)[labels[i].label]

\* C11: requests do not disturb each other: while a request is between the
\* successful return of save_uploaded_video and its own cleanup, the video
\* file it stored is on disk as it wrote it (so the decoder can read it, as
\* it could had the request run alone), and a frame it was handed is not
\* one that another request wrote.
C11_RequestsIndependent ==
    \A r \in Requests :
        /\ pc[r] \in {"Stored", "FrameExtracted", "Classified", "Assembled"}
              => fs[video_path[r]] = r
        /\ (pc[r] \in {"FrameExtracted", "Classified", "Assembled"}
            /\ fs[frame_path[r]] # 0)
              => fs[frame_path[r]] = r

====
